---- MODULE Spec2Model ----
(***************************************************************************)
(* symdiff: the symmetric difference of two sequences by a two-cursor      *)
(* merge, in its three delivery styles (src/src/lib.rs):                   *)
(*   diff              - the pull iterator SymDiffIter and its next()      *)
(*   diff_internal     - push, two sinks fl / fr                           *)
(*   diff_internal_alt - push, one sink f taking a Tag                     *)
(* Every loop of the source is modelled one iteration per action.  The     *)
(* library is synchronous and single-threaded, so the calls are made one   *)
(* after the other, in the order of Plan: first the three on the argument  *)
(* pair (A, B) (run "fwd"), then, in SwapSpec, the three on the swapped    *)
(* pair (B, A) (run "swp").                                                *)
(***************************************************************************)
EXTENDS Integers, Sequences, FiniteSets

\* Bounds of the model: the inputs are all sequences of at most MaxLen items
\* drawn from 1..MaxVal; next() is polled until it has returned None MaxNones
\* times.
MaxLen == 3
MaxVal == 2
MaxNones == 2

VARIABLES
    A,      \* the receiver (self) of run "fwd"
    B,      \* the argument rhs of run "fwd"
    phase,  \* index into Plan of the call in progress
    di,     \* di[run]: the locals of diff_internal and the calls it made
    da,     \* da[run]: the locals of diff_internal_alt and the calls it made
    sd      \* sd[run]: the SymDiffIter of diff, the frame of its next() and
            \* what its caller has seen

vars == <<A, B, phase, di, da, sd>>

Runs == {"fwd", "swp"}

Items == 1..MaxVal

Inputs == UNION {[1..n -> Items] : n \in 0..MaxLen}

\* Option<T>
None == <<>>
Some(x) == <<x>>
IsSome(o) == o # <<>>
Unwrap(o) == o[1]

\* enum Tag<T>
TagLeft(x) == [tag |-> "Left", val |-> x]
TagRight(x) == [tag |-> "Right", val |-> x]

\* Tag::unwrap
TagUnwrap(t) == t.val

\* Ord::cmp on the items
Cmp(a, b) == IF a < b THEN "Less" ELSE IF a > b THEN "Greater" ELSE "Equal"

\* self and rhs of a run
Lhs(run) == IF run = "fwd" THEN A ELSE B
Rhs(run) == IF run = "fwd" THEN B ELSE A

\* Iterator::next of a slice iterator that has yielded p items of X: the
\* item it yields, and the number of items it has yielded afterwards.
IterItem(X, p) == IF p < Len(X) THEN Some(X[p + 1]) ELSE None
IterPos(X, p) == IF p < Len(X) THEN p + 1 ELSE p

\* The calls of the caller, in order.
Plan ==
    << <<"diff_internal", "fwd">>, <<"diff_internal_alt", "fwd">>, <<"diff", "fwd">>,
       <<"diff_internal", "swp">>, <<"diff_internal_alt", "swp">>, <<"diff", "swp">> >>

Running(fn, run) == phase <= Len(Plan) /\ Plan[phase] = <<fn, run>>

----------------------------------------------------------------------------
(* diff_internal *)

DiFresh == [pc |-> "init", left |-> 0, right |-> 0,
            curr_left |-> None, curr_right |-> None, calls |-> <<>>]

\* fl(item), fr(item): the sinks record the call
CallFl(s, item) == [s EXCEPT !.calls = Append(@, <<"fl", item>>)]
CallFr(s, item) == [s EXCEPT !.calls = Append(@, <<"fr", item>>)]

\* let mut left = ..; let mut right = ..; curr_left = left.next(); ..
DiEnter(s, X, Y) ==
    [s EXCEPT !.pc = "loop",
              !.curr_left = IterItem(X, 0), !.left = IterPos(X, 0),
              !.curr_right = IterItem(Y, 0), !.right = IterPos(Y, 0)]

\* (None, None) => return
DiBothNone(s) == [s EXCEPT !.pc = "done", !.curr_left = None, !.curr_right = None]

\* (Some(item), None) => fl(item), then the for loop over left
DiLeftOnly(s, item) ==
    [CallFl(s, item) EXCEPT !.pc = "drain_left", !.curr_left = None, !.curr_right = None]

\* (None, Some(item)) => fr(item), then the for loop over right
DiRightOnly(s, item) ==
    [CallFr(s, item) EXCEPT !.pc = "drain_right", !.curr_left = None, !.curr_right = None]

\* A slip: Greater hands the left item to fl and advances left.
DiGreaterEmitsLeft(s, a, b, X, Y) ==
    [CallFl(s, a) EXCEPT !.curr_left = IterItem(X, s.left),
                         !.left = IterPos(X, s.left),
                         !.curr_right = Some(b)]

\* Greater => fr(b); curr_left = Some(a); curr_right = right.next()
DiGreater(s, a, b, X, Y) ==
    [CallFr(s, b) EXCEPT !.curr_left = Some(a),
                         !.curr_right = IterItem(Y, s.right),
                         !.right = IterPos(Y, s.right)]

\* Less => fl(a); curr_left = left.next(); curr_right = Some(b)
DiLess(s, a, b, X, Y) ==
    [CallFl(s, a) EXCEPT !.curr_left = IterItem(X, s.left),
                         !.left = IterPos(X, s.left),
                         !.curr_right = Some(b)]

\* A slip: Equal advances left only and keeps the right head.
DiEqualKeepsRight(s, a, b, X, Y) ==
    [s EXCEPT !.curr_left = IterItem(X, s.left), !.left = IterPos(X, s.left),
              !.curr_right = Some(b)]

\* A slip: Equal is handled as Less.
DiEqualAsLess(s, a, b, X, Y) ==
    [CallFl(s, a) EXCEPT !.curr_left = IterItem(X, s.left),
                         !.left = IterPos(X, s.left),
                         !.curr_right = Some(b)]

\* Equal => curr_left = left.next(); curr_right = right.next()
DiEqual(s, a, b, X, Y) ==
    [s EXCEPT !.curr_left = IterItem(X, s.left), !.left = IterPos(X, s.left),
              !.curr_right = IterItem(Y, s.right), !.right = IterPos(Y, s.right)]

\* One iteration of the loop: match (curr_left.take(), curr_right.take())
DiMatch(s, X, Y) ==
    LET l == s.curr_left
        r == s.curr_right
    IN  CASE ~IsSome(l) /\ ~IsSome(r) -> DiBothNone(s)
          [] IsSome(l) /\ ~IsSome(r) -> DiLeftOnly(s, Unwrap(l))
          [] ~IsSome(l) /\ IsSome(r) -> DiRightOnly(s, Unwrap(r))
          [] OTHER ->
                CASE Cmp(Unwrap(l), Unwrap(r)) = "Greater" -> DiGreater(s, Unwrap(l), Unwrap(r), X, Y)
                  [] Cmp(Unwrap(l), Unwrap(r)) = "Less" -> DiLess(s, Unwrap(l), Unwrap(r), X, Y)
                  [] OTHER -> DiEqual(s, Unwrap(l), Unwrap(r), X, Y)

\* for item in left { fl(item); }  return;   one iteration, or the end
DiDrainLeft(s, X) ==
    IF IsSome(IterItem(X, s.left))
    THEN [CallFl(s, Unwrap(IterItem(X, s.left))) EXCEPT !.left = IterPos(X, s.left)]
    ELSE [s EXCEPT !.pc = "done"]

\* A slip: the rest of right is not forwarded.
DiDrainRightStopsEarly(s, Y) == [s EXCEPT !.pc = "done"]

\* for item in right { fr(item); }  return;
DiDrainRight(s, Y) ==
    IF IsSome(IterItem(Y, s.right))
    THEN [CallFr(s, Unwrap(IterItem(Y, s.right))) EXCEPT !.right = IterPos(Y, s.right)]
    ELSE [s EXCEPT !.pc = "done"]

\* The phase after a step of a call: the caller goes on when the call returns.
After(pc) == IF pc = "done" THEN phase + 1 ELSE phase

DiffInternalEnter(run) ==
    /\ Running("diff_internal", run)
    /\ di[run].pc = "init"
    /\ di' = [di EXCEPT ![run] = DiEnter(@, Lhs(run), Rhs(run))]
    /\ UNCHANGED <<A, B, phase, da, sd>>

DiffInternalLoop(run) ==
    /\ Running("diff_internal", run)
    /\ di[run].pc = "loop"
    /\ di' = [di EXCEPT ![run] = DiMatch(@, Lhs(run), Rhs(run))]
    /\ phase' = After(di'[run].pc)
    /\ UNCHANGED <<A, B, da, sd>>

DiffInternalDrain(run) ==
    /\ Running("diff_internal", run)
    /\ di[run].pc \in {"drain_left", "drain_right"}
    /\ di' = [di EXCEPT ![run] = IF @.pc = "drain_left"
                                 THEN DiDrainLeft(@, Lhs(run))
                                 ELSE DiDrainRight(@, Rhs(run))]
    /\ phase' = After(di'[run].pc)
    /\ UNCHANGED <<A, B, da, sd>>

----------------------------------------------------------------------------
(* diff_internal_alt *)

DaFresh == [pc |-> "init", left |-> 0, right |-> 0,
            curr_left |-> None, curr_right |-> None, calls |-> <<>>]

\* f(tag): the sink records the call
CallF(s, tag) == [s EXCEPT !.calls = Append(@, tag)]

\* let mut left = ..; let mut right = ..; curr_left = left.next(); ..
DaEnter(s, X, Y) ==
    [s EXCEPT !.pc = "loop",
              !.curr_left = IterItem(X, 0), !.left = IterPos(X, 0),
              !.curr_right = IterItem(Y, 0), !.right = IterPos(Y, 0)]

\* (None, None) => return
DaBothNone(s) == [s EXCEPT !.pc = "done", !.curr_left = None, !.curr_right = None]

\* (Some(item), None) => f(Tag::Left(item)), then the for loop over left
DaLeftOnly(s, item) ==
    [CallF(s, TagLeft(item)) EXCEPT !.pc = "drain_left", !.curr_left = None, !.curr_right = None]

\* (None, Some(item)) => f(Tag::Right(item)), then the for loop over right
DaRightOnly(s, item) ==
    [CallF(s, TagRight(item)) EXCEPT !.pc = "drain_right", !.curr_left = None, !.curr_right = None]

\* A slip: Greater tags the right item Left.
DaGreaterTagsLeft(s, a, b, X, Y) ==
    [CallF(s, TagLeft(b)) EXCEPT !.curr_left = Some(a),
                                 !.curr_right = IterItem(Y, s.right),
                                 !.right = IterPos(Y, s.right)]

\* Greater => f(Tag::Right(b)); curr_left = Some(a); curr_right = right.next()
DaGreater(s, a, b, X, Y) ==
    [CallF(s, TagRight(b)) EXCEPT !.curr_left = Some(a),
                                  !.curr_right = IterItem(Y, s.right),
                                  !.right = IterPos(Y, s.right)]

\* Less => f(Tag::Left(a)); curr_left = left.next(); curr_right = Some(b)
DaLess(s, a, b, X, Y) ==
    [CallF(s, TagLeft(a)) EXCEPT !.curr_left = IterItem(X, s.left),
                                 !.left = IterPos(X, s.left),
                                 !.curr_right = Some(b)]

\* A slip: Equal keeps the left head, so that one left item cancels every
\* equal right item.
DaEqualKeepsLeft(s, a, b, X, Y) ==
    [s EXCEPT !.curr_left = Some(a),
              !.curr_right = IterItem(Y, s.right), !.right = IterPos(Y, s.right)]

\* A slip: Equal puts both heads back and advances neither cursor.
DaEqualStuck(s, a, b, X, Y) ==
    [s EXCEPT !.curr_left = Some(a), !.curr_right = Some(b)]

\* Equal => curr_left = left.next(); curr_right = right.next()
DaEqual(s, a, b, X, Y) ==
    [s EXCEPT !.curr_left = IterItem(X, s.left), !.left = IterPos(X, s.left),
              !.curr_right = IterItem(Y, s.right), !.right = IterPos(Y, s.right)]

\* One iteration of the loop: match (curr_left.take(), curr_right.take())
DaMatch(s, X, Y) ==
    LET l == s.curr_left
        r == s.curr_right
    IN  CASE ~IsSome(l) /\ ~IsSome(r) -> DaBothNone(s)
          [] IsSome(l) /\ ~IsSome(r) -> DaLeftOnly(s, Unwrap(l))
          [] ~IsSome(l) /\ IsSome(r) -> DaRightOnly(s, Unwrap(r))
          [] OTHER ->
                CASE Cmp(Unwrap(l), Unwrap(r)) = "Greater" -> DaGreater(s, Unwrap(l), Unwrap(r), X, Y)
                  [] Cmp(Unwrap(l), Unwrap(r)) = "Less" -> DaLess(s, Unwrap(l), Unwrap(r), X, Y)
                  [] OTHER -> DaEqual(s, Unwrap(l), Unwrap(r), X, Y)

\* for item in left { f(Tag::Left(item)); }  return;
DaDrainLeft(s, X) ==
    IF IsSome(IterItem(X, s.left))
    THEN [CallF(s, TagLeft(Unwrap(IterItem(X, s.left)))) EXCEPT !.left = IterPos(X, s.left)]
    ELSE [s EXCEPT !.pc = "done"]

\* for item in right { f(Tag::Right(item)); }  return;
DaDrainRight(s, Y) ==
    IF IsSome(IterItem(Y, s.right))
    THEN [CallF(s, TagRight(Unwrap(IterItem(Y, s.right)))) EXCEPT !.right = IterPos(Y, s.right)]
    ELSE [s EXCEPT !.pc = "done"]

DiffInternalAltEnter(run) ==
    /\ Running("diff_internal_alt", run)
    /\ da[run].pc = "init"
    /\ da' = [da EXCEPT ![run] = DaEnter(@, Lhs(run), Rhs(run))]
    /\ UNCHANGED <<A, B, phase, di, sd>>

DiffInternalAltLoop(run) ==
    /\ Running("diff_internal_alt", run)
    /\ da[run].pc = "loop"
    /\ da' = [da EXCEPT ![run] = DaMatch(@, Lhs(run), Rhs(run))]
    /\ phase' = After(da'[run].pc)
    /\ UNCHANGED <<A, B, di, sd>>

DiffInternalAltDrain(run) ==
    /\ Running("diff_internal_alt", run)
    /\ da[run].pc \in {"drain_left", "drain_right"}
    /\ da' = [da EXCEPT ![run] = IF @.pc = "drain_left"
                                 THEN DaDrainLeft(@, Lhs(run))
                                 ELSE DaDrainRight(@, Rhs(run))]
    /\ phase' = After(da'[run].pc)
    /\ UNCHANGED <<A, B, di, sd>>

----------------------------------------------------------------------------
(* diff, SymDiffIter and SymDiffIter::next *)

\* sd[run] holds
\*   self_left, self_right, rem : the fields of SymDiffIter (the two source
\*                                iterators as the number of items yielded)
\*   pc, left, right            : the frame of next(): where it is, its locals
\*   out, ret, calls, nones     : the caller's view: the items returned, the
\*                                last return value, the calls that returned,
\*                                those that returned None
\*   cancelled, left_none, right_none : history: the pairs dropped as equal,
\*                                and whether self.left.next() (self.right
\*                                .next()) has returned None
SdFresh == [pc |-> "init", self_left |-> 0, self_right |-> 0, rem |-> None,
            left |-> None, right |-> None,
            out |-> <<>>, ret |-> None, calls |-> 0, nones |-> 0,
            cancelled |-> 0, left_none |-> FALSE, right_none |-> FALSE]

\* SymDiffIter { left: self.into_iter(), right: rhs.into_iter(), rem: None }
SdNew(s) == [s EXCEPT !.pc = "idle", !.self_left = 0, !.self_right = 0, !.rem = None]

\* left = self.left.next()
SdPullLeft(s, X) ==
    [s EXCEPT !.left = IterItem(X, s.self_left),
              !.self_left = IterPos(X, s.self_left),
              !.left_none = @ \/ ~IsSome(IterItem(X, s.self_left))]

\* right = self.right.next()
SdPullRight(s, Y) ==
    [s EXCEPT !.right = IterItem(Y, s.self_right),
              !.self_right = IterPos(Y, s.self_right),
              !.right_none = @ \/ ~IsSome(IterItem(Y, s.self_right))]

\* let (mut left, mut right) = match self.rem.take() { .. }
SdEnter(s, X, Y) ==
    LET t == [s EXCEPT !.pc = "loop", !.rem = None]
    IN  CASE ~IsSome(s.rem) -> SdPullRight(SdPullLeft(t, X), Y)
          [] IsSome(s.rem) /\ Unwrap(s.rem).tag = "Left" ->
                SdPullRight([t EXCEPT !.left = Some(Unwrap(s.rem).val)], Y)
          [] OTHER ->
                SdPullLeft([t EXCEPT !.right = Some(Unwrap(s.rem).val)], X)

\* return v: the frame is gone and the caller has v
SdReturn(s, v) ==
    [s EXCEPT !.pc = "idle", !.left = None, !.right = None,
              !.ret = v, !.calls = @ + 1,
              !.out = IF IsSome(v) THEN Append(@, Unwrap(v)) ELSE @,
              !.nones = IF IsSome(v) THEN @ ELSE @ + 1]

\* (Some(left), None) => return Some(Tag::Left(left))
SdLeftOnly(s, l) == SdReturn(s, Some(TagLeft(l)))

\* (None, Some(right)) => return Some(Tag::Right(right))
SdRightOnly(s, r) == SdReturn(s, Some(TagRight(r)))

\* A slip: Greater does not keep the left head in rem.
SdGreaterDropsRem(s, l, r) == SdReturn(s, Some(TagRight(r)))

\* Greater => self.rem = Some(Tag::Left(left)); return Some(Tag::Right(right))
SdGreater(s, l, r) == SdReturn([s EXCEPT !.rem = Some(TagLeft(l))], Some(TagRight(r)))

\* A slip: Less does not keep the right head in rem.
SdLessDropsRem(s, l, r) == SdReturn(s, Some(TagLeft(l)))

\* Less => self.rem = Some(Tag::Right(right)); return Some(Tag::Left(left))
SdLess(s, l, r) == SdReturn([s EXCEPT !.rem = Some(TagRight(r))], Some(TagLeft(l)))

\* A slip: Equal is handled as Less.
SdEqualAsLess(s, l, r, X, Y) ==
    SdReturn([s EXCEPT !.rem = Some(TagRight(r))], Some(TagLeft(l)))

\* _ => (), then left = self.left.next(); right = self.right.next()
SdEqual(s, l, r, X, Y) ==
    SdPullRight(SdPullLeft([s EXCEPT !.cancelled = @ + 1], X), Y)

\* _ => return None
SdBothNone(s) == SdReturn(s, None)

\* One iteration of the loop: match (left.take(), right.take())
SdMatch(s, X, Y) ==
    LET l == s.left
        r == s.right
    IN  CASE IsSome(l) /\ ~IsSome(r) -> SdLeftOnly(s, Unwrap(l))
          [] ~IsSome(l) /\ IsSome(r) -> SdRightOnly(s, Unwrap(r))
          [] IsSome(l) /\ IsSome(r) ->
                CASE Cmp(Unwrap(l), Unwrap(r)) = "Greater" -> SdGreater(s, Unwrap(l), Unwrap(r))
                  [] Cmp(Unwrap(l), Unwrap(r)) = "Less" -> SdLess(s, Unwrap(l), Unwrap(r))
                  [] OTHER -> SdEqual(s, Unwrap(l), Unwrap(r), X, Y)
          [] OTHER -> SdBothNone(s)

\* self.diff(rhs)
Diff(run) ==
    /\ Running("diff", run)
    /\ sd[run].pc = "init"
    /\ sd' = [sd EXCEPT ![run] = SdNew(@)]
    /\ UNCHANGED <<A, B, phase, di, da>>

\* The caller asks for the next item.
NextEnter(run) ==
    /\ Running("diff", run)
    /\ sd[run].pc = "idle"
    /\ sd[run].nones < MaxNones
    /\ sd' = [sd EXCEPT ![run] = SdEnter(@, Lhs(run), Rhs(run))]
    /\ UNCHANGED <<A, B, phase, di, da>>

NextLoop(run) ==
    /\ Running("diff", run)
    /\ sd[run].pc = "loop"
    /\ sd' = [sd EXCEPT ![run] = SdMatch(@, Lhs(run), Rhs(run))]
    /\ UNCHANGED <<A, B, phase, di, da>>

\* The caller, having been told None, lets go of the iterator and keeps the
\* items it was given.
Drop(run) ==
    /\ Running("diff", run)
    /\ sd[run].pc = "idle"
    /\ sd[run].nones >= 1
    /\ sd' = [sd EXCEPT ![run] = [SdFresh EXCEPT !.pc = "dropped", !.out = sd[run].out]]
    /\ phase' = phase + 1
    /\ UNCHANGED <<A, B, di, da>>

----------------------------------------------------------------------------

Init ==
    /\ A \in Inputs
    /\ B \in Inputs
    /\ phase = 1
    /\ di = [run \in Runs |-> DiFresh]
    /\ da = [run \in Runs |-> DaFresh]
    /\ sd = [run \in Runs |-> SdFresh]

Step(run) ==
    \/ DiffInternalEnter(run)
    \/ DiffInternalLoop(run)
    \/ DiffInternalDrain(run)
    \/ DiffInternalAltEnter(run)
    \/ DiffInternalAltLoop(run)
    \/ DiffInternalAltDrain(run)
    \/ Diff(run)
    \/ NextEnter(run)
    \/ NextLoop(run)
    \/ Drop(run)

\* The three calls on (A, B).
Next == Step("fwd")

Spec == Init /\ [][Next]_vars

\* The thread runs: a call in progress takes its next step.
FairSpec == Spec /\ WF_vars(Next)

\* The three calls on (A, B), then the three on (B, A).
SwapNext == \E run \in Runs : Step(run)

SwapSpec == Init /\ [][SwapNext]_vars

----------------------------------------------------------------------------
(* What the claims speak of *)

RECURSIVE Count(_, _)
\* the number of occurrences of v in the sequence X
Count(X, v) == IF X = <<>> THEN 0 ELSE (IF Head(X) = v THEN 1 ELSE 0) + Count(Tail(X), v)

\* the number of items of the output T tagged side with value v
CountTag(T, side, v) == Count(T, [tag |-> side, val |-> v])

\* the number of items of the output T tagged side
CountSide(T, side) == Cardinality({i \in 1..Len(T) : T[i].tag = side})

Range(X) == {X[i] : i \in 1..Len(X)}

Max(a, b) == IF a >= b THEN a ELSE b

\* weakly increasing, strictly increasing
Sorted(X) == \A i \in 1..(Len(X) - 1) : X[i] <= X[i + 1]
StrictlySorted(X) == \A i \in 1..(Len(X) - 1) : X[i] < X[i + 1]

\* the calls fl(x), fr(x) read as Left(x), Right(x)
AsTags(calls) ==
    [i \in 1..Len(calls) |->
        IF calls[i][1] = "fl" THEN TagLeft(calls[i][2]) ELSE TagRight(calls[i][2])]

\* an output with Left and Right exchanged
SwapTags(T) ==
    [i \in 1..Len(T) |-> IF T[i].tag = "Left" THEN TagRight(T[i].val) ELSE TagLeft(T[i].val)]

\* all of X tagged with one side
AllLeft(X) == [i \in 1..Len(X) |-> TagLeft(X[i])]
AllRight(X) == [i \in 1..Len(X) |-> TagRight(X[i])]

Values(T) == {TagUnwrap(T[i]) : i \in 1..Len(T)}

NonDecreasing(T) == \A i \in 1..(Len(T) - 1) : TagUnwrap(T[i]) <= TagUnwrap(T[i + 1])

\* The output of each variant so far, as tagged items.
OutInternal(run) == AsTags(di[run].calls)
OutAlt(run) == da[run].calls
OutPull(run) == sd[run].out

\* The call has returned; next() has returned None.
InternalDone(run) == di[run].pc = "done"
AltDone(run) == da[run].pc = "done"
PullDrained(run) ==
    \/ sd[run].pc = "dropped"
    \/ sd[run].pc = "idle" /\ sd[run].nones >= 1

AllDone(run) == InternalDone(run) /\ AltDone(run) /\ PullDrained(run)

\* P holds of the output of every variant that has finished
OfEveryResult(run, P(_)) ==
    /\ InternalDone(run) => P(OutInternal(run))
    /\ AltDone(run) => P(OutAlt(run))
    /\ PullDrained(run) => P(OutPull(run))

\* P holds of what every variant has put out so far
OfEveryOutput(run, P(_)) ==
    /\ P(OutInternal(run))
    /\ P(OutAlt(run))
    /\ P(OutPull(run))

----------------------------------------------------------------------------

\* C1: for every pair of inputs, sorted or not, the items next() returns
\* until None, the tags handed to f by diff_internal_alt and the calls fl(x),
\* fr(x) of diff_internal read as Left(x), Right(x) are the same sequence.
C1_VariantsAgree ==
    AllDone("fwd") =>
        /\ OutPull("fwd") = OutAlt("fwd")
        /\ OutInternal("fwd") = OutAlt("fwd")

C1_Witness ==
    /\ AllDone("fwd")
    /\ ~Sorted(A)
    /\ ~Sorted(B)
    /\ OutPull("fwd") = OutAlt("fwd")
    /\ CountSide(OutPull("fwd"), "Left") >= 1
    /\ CountSide(OutPull("fwd"), "Right") >= 1
    /\ Len(OutPull("fwd")) < Len(A) + Len(B)

\* C2: for strictly ascending A and B, the values each variant emits are
\* exactly the values that occur in one of A and B and not in the other.
IsSetSymDiff(T) == Values(T) = (Range(A) \ Range(B)) \cup (Range(B) \ Range(A))

C2_SetSymmetricDifference ==
    (StrictlySorted(A) /\ StrictlySorted(B)) => OfEveryResult("fwd", IsSetSymDiff)

C2_Witness ==
    /\ StrictlySorted(A)
    /\ StrictlySorted(B)
    /\ AllDone("fwd")
    /\ Range(A) \cap Range(B) # {}
    /\ Range(A) \ Range(B) # {}
    /\ Values(OutPull("fwd")) = Range(A) \ Range(B)

\* C3: for weakly increasing A and B, equal items cancel pairwise: a value
\* occurring a times in A and b times in B is emitted max(a - b, 0) times as
\* Left and max(b - a, 0) times as Right; [1,1,2] against [1,2,2] gives
\* Left(1), Right(2).
IsPairwiseCancelled(T) ==
    \A v \in Items :
        /\ CountTag(T, "Left", v) = Max(Count(A, v) - Count(B, v), 0)
        /\ CountTag(T, "Right", v) = Max(Count(B, v) - Count(A, v), 0)

IsScenarioOutput(T) ==
    (A = <<1, 1, 2>> /\ B = <<1, 2, 2>>) => T = <<TagLeft(1), TagRight(2)>>

C3_PairwiseCancellation ==
    (Sorted(A) /\ Sorted(B)) =>
        /\ OfEveryResult("fwd", IsPairwiseCancelled)
        /\ OfEveryResult("fwd", IsScenarioOutput)

C3_Witness ==
    /\ A = <<1, 1, 2>>
    /\ B = <<1, 2, 2>>
    /\ AllDone("fwd")
    /\ OutPull("fwd") = <<TagLeft(1), TagRight(2)>>
    /\ OutInternal("fwd") = <<TagLeft(1), TagRight(2)>>

\* C4: diff(A, A) is empty for any A, sorted or not: the first next() returns
\* None, and diff_internal and diff_internal_alt call no sink.
C4_SelfDiffEmpty ==
    (A = B) =>
        /\ di["fwd"].calls = <<>>
        /\ da["fwd"].calls = <<>>
        /\ sd["fwd"].out = <<>>
        /\ (sd["fwd"].pc = "idle" /\ sd["fwd"].calls >= 1) => sd["fwd"].ret = None

C4_Witness ==
    /\ A = B
    /\ ~Sorted(A)
    /\ Len(A) = MaxLen
    /\ AllDone("fwd")
    /\ sd["fwd"].pc = "idle"
    /\ sd["fwd"].calls = 1
    /\ sd["fwd"].ret = None

\* C5: when both inputs are non-decreasing, every variant emits its items in
\* non-decreasing order of value, across both sides.
C5_OutputNonDecreasing ==
    (Sorted(A) /\ Sorted(B)) => OfEveryOutput("fwd", NonDecreasing)

C5_Witness ==
    /\ Sorted(A)
    /\ Sorted(B)
    /\ AllDone("fwd")
    /\ Len(OutPull("fwd")) >= 3
    /\ CountSide(OutPull("fwd"), "Left") >= 1
    /\ CountSide(OutPull("fwd"), "Right") >= 1
    /\ OutPull("fwd")[1].val < OutPull("fwd")[Len(OutPull("fwd"))].val

\* C6: when one input is empty the output of every variant is the other
\* input, item for item in its order, tagged with the side it came from,
\* sorted or not; when both are empty the output is empty.
IsRightInput(T) == T = AllRight(B)
IsLeftInput(T) == T = AllLeft(A)

C6_EmptyInput ==
    /\ (A = <<>>) => OfEveryResult("fwd", IsRightInput)
    /\ (B = <<>>) => OfEveryResult("fwd", IsLeftInput)

C6_Witness ==
    /\ A = <<>>
    /\ ~Sorted(B)
    /\ Len(B) = MaxLen
    /\ AllDone("fwd")
    /\ OutPull("fwd") = AllRight(B)
    /\ OutInternal("fwd") = AllRight(B)

\* C7: for any pair of finite inputs, sorted or not, diff_internal and
\* diff_internal_alt return, every call of next() returns, and next() returns
\* None after at most |A| + |B| items.
C7_Terminates ==
    /\ <>(InternalDone("fwd") /\ AltDone("fwd") /\ sd["fwd"].pc = "dropped")
    /\ (sd["fwd"].pc = "loop") ~> (sd["fwd"].pc = "idle")
    /\ [](Len(OutPull("fwd")) <= Len(A) + Len(B))

C7_Witness ==
    /\ ~Sorted(A)
    /\ ~Sorted(B)
    /\ Len(A) + Len(B) = 2 * MaxLen
    /\ sd["fwd"].pc = "dropped"
    /\ Len(OutPull("fwd")) >= 2
    /\ InternalDone("fwd")
    /\ AltDone("fwd")

\* C8: for weakly increasing inputs no value is emitted both as Left and as
\* Right, and every item tagged Left (Right) was read from the left (right)
\* input.
IsOneSided(T) ==
    \A v \in Items :
        /\ ~(CountTag(T, "Left", v) > 0 /\ CountTag(T, "Right", v) > 0)
        /\ CountTag(T, "Left", v) <= Count(A, v)
        /\ CountTag(T, "Right", v) <= Count(B, v)

C8_OneSidePerValue ==
    (Sorted(A) /\ Sorted(B)) => OfEveryOutput("fwd", IsOneSided)

C8_Witness ==
    /\ Sorted(A)
    /\ Sorted(B)
    /\ AllDone("fwd")
    /\ Range(A) = Range(B)
    /\ CountSide(OutAlt("fwd"), "Left") >= 1
    /\ CountSide(OutAlt("fwd"), "Right") >= 1

\* C9: between two calls of next(), the items pulled from the left source are
\* the Left items returned, the pairs cancelled and the Left item in rem, if
\* any, and likewise on the right; rem holds an item only directly after a
\* call that returned an item of the other side that is strictly less; rem is
\* empty after a call that returned None, and after a call that returned an
\* item while the other source had reported its end.
RemIs(s, side) == IsSome(s.rem) /\ Unwrap(s.rem).tag = side

C9_PullAccounting ==
    LET s == sd["fwd"]
    IN  (s.pc = "idle") =>
            /\ s.self_left = CountSide(s.out, "Left") + s.cancelled
                                + (IF RemIs(s, "Left") THEN 1 ELSE 0)
            /\ s.self_right = CountSide(s.out, "Right") + s.cancelled
                                + (IF RemIs(s, "Right") THEN 1 ELSE 0)
            /\ IsSome(s.rem) =>
                    /\ IsSome(s.ret)
                    /\ Unwrap(s.ret).tag # Unwrap(s.rem).tag
                    /\ Unwrap(s.ret).val < Unwrap(s.rem).val
            /\ (s.calls >= 1 /\ ~IsSome(s.ret)) => ~IsSome(s.rem)
            /\ (IsSome(s.ret) /\ Unwrap(s.ret).tag = "Left" /\ s.right_none) => ~IsSome(s.rem)
            /\ (IsSome(s.ret) /\ Unwrap(s.ret).tag = "Right" /\ s.left_none) => ~IsSome(s.rem)

C9_Witness ==
    LET s == sd["fwd"]
    IN  /\ s.pc = "idle"
        /\ s.calls >= 3
        /\ s.cancelled >= 1
        /\ CountSide(s.out, "Right") >= 1
        /\ IsSome(s.ret)
        /\ Unwrap(s.ret).tag = "Left"
        /\ s.right_none
        /\ ~IsSome(s.rem)
        /\ s.self_left = CountSide(s.out, "Left") + s.cancelled

\* C10: swapping the arguments swaps only the tags: diff(B, A) is diff(A, B)
\* with Left and Right exchanged, same items, same order, sorted or not, and
\* diff_internal(B, A, fr, fl) makes the calls of diff_internal(A, B, fl, fr).
C10_SwapSymmetry ==
    (AllDone("fwd") /\ AllDone("swp")) =>
        /\ OutPull("swp") = SwapTags(OutPull("fwd"))
        /\ OutInternal("swp") = SwapTags(OutInternal("fwd"))
        /\ OutAlt("swp") = SwapTags(OutAlt("fwd"))

C10_Witness ==
    /\ AllDone("fwd")
    /\ AllDone("swp")
    /\ ~Sorted(A)
    /\ A # B
    /\ CountSide(OutPull("fwd"), "Left") >= 2
    /\ CountSide(OutPull("swp"), "Right") >= 2
    /\ CountSide(OutPull("fwd"), "Right") >= 1
    /\ Len(OutPull("fwd")) < Len(A) + Len(B)

====
